---------------------------- MODULE Spec2Model ----------------------------
(***************************************************************************)
(* A model of the energy pipeline: FetchFirebaseData.store_sensor_data,    *)
(* TriggerPrediction.main, OptimizeEnergy.generate_recommendations_from_db *)
(* writing the tables sensor_data, predictions and recommendations, and    *)
(* the durable orchestration (starter_function, orchestrator_function and  *)
(* the Call* activities) that chains them.                                 *)
(*                                                                         *)
(* Conventions.  A Python/JSON value is a record [k |-> kind, v |-> ...];   *)
(* the non-key columns of a row hold such values (PyNone is SQL NULL).     *)
(* Times are whole hours (UTC).  Floating point quantities are integers:   *)
(* power_factor in hundredths (0.95 is 95), everything else in units.      *)
(***************************************************************************)
EXTENDS Integers, Sequences, FiniteSets, TLC

VARIABLES
    sensor_data,        \* table sensor_data: a set of rows
    predictions,        \* table predictions: a set of rows
    recommendations,    \* table recommendations: a set of rows
    inp,                \* the input of the invocation under study
    last,               \* what the last handler invocation did
    prev,               \* the three tables before the last handler invocation
    instance,           \* the durable instance "energy-orchestrator"
    events,             \* the instance's history of scheduled and completed activities
    starters,           \* the position of each starter_function invocation
    triggers,           \* timer firings so far
    starts,             \* start_new calls so far
    runs                \* number of handler invocations so far

(***************************************************************************)
(* Bounds of the model.                                                    *)
(***************************************************************************)
MaxNodes == 3           \* buildings plus leaves (timestamp -> reading) of a snapshot
MaxSteps == 2           \* timesteps (len(target)) of a caller-supplied record
MaxForecast == 6        \* values of a forecast the endpoint returns
MaxLayers == 3          \* times the endpoint's response is JSON-encoded
MaxRuns == 3            \* handler invocations on one database
MaxTriggers == 3        \* firings of the starter's timer

(***************************************************************************)
(* Python values.                                                          *)
(***************************************************************************)
PyNum(n) == [k |-> "num", v |-> n]
PyStr(s) == [k |-> "str", v |-> s]
PyNone == [k |-> "none", v |-> 0]
PyDict(f) == [k |-> "dict", v |-> f]
PyList(s) == [k |-> "list", v |-> s]

Ok(x) == [ok |-> TRUE, v |-> x]
Fail == [ok |-> FALSE, v |-> 0]

\* The decimal texts the model uses and the number each denotes.
DecimalText == [t \in {"0", "1", "01", "20"} |->
                  CASE t = "0" -> 0 [] t = "1" -> 1 [] t = "01" -> 1 [] t = "20" -> 20]

\* float(x) / int(x): a number converts, a decimal text converts, None and
\* every other value raise.
PyFloat(x) ==
    CASE x.k = "num" -> Ok(x.v)
      [] x.k = "str" -> IF x.v \in DOMAIN DecimalText THEN Ok(DecimalText[x.v]) ELSE Fail
      [] OTHER -> Fail

\* dict.get(key, default)
Get(d, key, default) == IF key \in DOMAIN d THEN d[key] ELSE default

(***************************************************************************)
(* ISO timestamp strings: an hour with one of the suffixes the two         *)
(* handlers treat, or text that is no timestamp at all.                    *)
(***************************************************************************)
Iso(h, sfx) == [k |-> "iso", h |-> h, sfx |-> sfx]
JunkTs == [k |-> "junk", h |-> 0, sfx |-> ""]

\* ts_str.replace("Z", "+00:00")
FetchReplaceZ(ts) ==
    CASE ts.k # "iso" -> ts
      [] ts.sfx = "Z" -> Iso(ts.h, "+00:00")
      [] ts.sfx = "+00:00Z" -> Iso(ts.h, "+00:00+00:00")
      [] OTHER -> ts

\* datetime.fromisoformat: a naive time or one with a single UTC offset.
FromIso(ts) ==
    IF ts.k = "iso" /\ ts.sfx \in {"", "+00:00"} THEN Ok(ts.h) ELSE Fail

(***************************************************************************)
(* Tables and the upsert.                                                  *)
(***************************************************************************)
SameKey(r, s) == r.timestamp = s.timestamp /\ r.building_id = s.building_id

\* INSERT ... ON CONFLICT (timestamp, building_id) DO NOTHING
UpsertKeepFirst(table, row) ==
    IF \E r \in table : SameKey(r, row) THEN table ELSE table \cup {row}

\* A variant that first deletes the building's other rows.
UpsertRefreshing(table, row) == {r \in table : r.building_id # row.building_id} \cup {row}

\* INSERT ... ON CONFLICT (timestamp, building_id) DO UPDATE SET <all columns>
Upsert(table, row) == {r \in table : ~SameKey(r, row)} \cup {row}

\* cursor.executemany: one statement per row, in order
RECURSIVE ExecuteMany(_, _)
ExecuteMany(table, rows) ==
    IF rows = <<>> THEN table
    ELSE ExecuteMany(Upsert(table, Head(rows)), Tail(rows))

(***************************************************************************)
(* FetchFirebaseData.store_sensor_data                                     *)
(***************************************************************************)
SensorRow(ts, b, temp, hum, occ, energy, current, voltage, pf, power) ==
    [timestamp |-> ts, building_id |-> b, temperature |-> temp, humidity |-> hum,
     occupancy |-> occ, energy |-> energy, current |-> current,
     voltage |-> voltage, power_factor |-> pf, power |-> power]

\* The body of the try of one leaf: the row, or Fail when anything raised.
ParseLeaf(building_id, leaf) ==
    LET ts == FromIso(FetchReplaceZ(leaf.ts))
        vals == leaf.values
    IN  IF ~ts.ok \/ vals.k # "dict" THEN Fail
        ELSE LET d == vals.v
                 temp == PyFloat(Get(d, "temperature", PyNum(0)))
                 hum == PyFloat(Get(d, "humidity", PyNum(0)))
                 occ == PyFloat(Get(d, "occupancy", PyNum(0)))
                 energy == PyFloat(Get(d, "energy", PyNum(0)))
                 current == PyFloat(Get(d, "current", PyNum(0)))
                 voltage == PyFloat(Get(d, "voltage", PyNum(0)))
                 pf == PyFloat(Get(d, "power_factor", PyNum(100)))
                 power == PyFloat(Get(d, "power", PyNum(0)))
                 bid == PyFloat(building_id)
             IN  IF temp.ok /\ hum.ok /\ occ.ok /\ energy.ok /\ current.ok
                    /\ voltage.ok /\ pf.ok /\ power.ok /\ bid.ok
                 THEN Ok(SensorRow(ts.v, bid.v, PyNum(temp.v), PyNum(hum.v), PyNum(occ.v),
                                   PyNum(energy.v), PyNum(current.v), PyNum(voltage.v),
                                   PyNum(pf.v), PyNum(power.v)))
                 ELSE Fail

\* A variant that stops at the first invalid leaf of a building.
RECURSIVE LeafRowsAbort(_, _)
LeafRowsAbort(building_id, leaves) ==
    IF leaves = <<>> THEN <<>>
    ELSE LET p == ParseLeaf(building_id, Head(leaves))
         IN  IF p.ok THEN <<p.v>> \o LeafRowsAbort(building_id, Tail(leaves))
             ELSE <<>>

\* for ts_str, values in readings.items(): try ... except: log
RECURSIVE LeafRows(_, _)
LeafRows(building_id, leaves) ==
    IF leaves = <<>> THEN <<>>
    ELSE LET p == ParseLeaf(building_id, Head(leaves))
         IN  (IF p.ok THEN <<p.v>> ELSE <<>>) \o LeafRows(building_id, Tail(leaves))

\* for building_id, readings in iterable: skip what is no dict
RECURSIVE BuildingRows(_)
BuildingRows(items) ==
    IF items = <<>> THEN <<>>
    ELSE LET it == Head(items)
         IN  (IF it.readings.k = "dict" THEN LeafRows(it.key, it.readings.v) ELSE <<>>)
             \o BuildingRows(Tail(items))

\* snapshot.items() of a dict, enumerate(snapshot) of a list
Items(snapshot) ==
    IF snapshot.k = "dict" THEN snapshot.v
    ELSE [i \in 1..Len(snapshot.v) |-> [key |-> PyNum(i - 1), readings |-> snapshot.v[i]]]

Column(rows, f) == PyList([i \in 1..Len(rows) |-> rows[i][f]])

Flattened(rows) ==
    [temperature |-> Column(rows, "temperature"), humidity |-> Column(rows, "humidity"),
     occupancy |-> Column(rows, "occupancy"), energy |-> Column(rows, "energy"),
     current |-> Column(rows, "current"), voltage |-> Column(rows, "voltage"),
     power_factor |-> Column(rows, "power_factor"), power |-> Column(rows, "power")]

\* store_sensor_data(snapshot, db_url) on the table `table`; dbOk: the
\* database accepts the connection and the statements.
StoreSensorData(snapshot, table, dbOk) ==
    IF ~dbOk THEN
        [outcome |-> "raised", connected |-> FALSE, committed |-> FALSE,
         rows |-> <<>>, table |-> table, flattened |-> Flattened(<<>>)]
    ELSE IF snapshot.k \notin {"dict", "list"} THEN
        [outcome |-> "returned", connected |-> TRUE, committed |-> FALSE,
         rows |-> <<>>, table |-> table, flattened |-> Flattened(<<>>)]
    ELSE LET rows == BuildingRows(Items(snapshot))
         IN  [outcome |-> "returned", connected |-> TRUE, committed |-> TRUE,
              rows |-> rows, table |-> ExecuteMany(table, rows),
              flattened |-> Flattened(rows)]

(***************************************************************************)
(* TriggerPrediction                                                       *)
(***************************************************************************)
DYNAMIC_FEATURE_KEYS ==
    <<"temperature", "humidity", "occupancy", "energy", "current", "voltage",
      "power_factor", "power">>

DEFAULT_VALUES ==
    [temperature |-> 25, humidity |-> 50, occupancy |-> 0, energy |-> 0,
     current |-> 5, voltage |-> 220, power_factor |-> 95, power |-> 0]

DefaultTimesteps == 5

\* sanitize_iso_timestamp
SanitizeIsoTimestamp(ts) ==
    CASE ts.k # "iso" -> ts
      [] ts.sfx = "+00:00Z" -> Iso(ts.h, "+00:00")
      [] ts.sfx = "Z" -> Iso(ts.h, "+00:00")
      [] OTHER -> ts

\* Python truthiness
Truthy(x) ==
    CASE x.k = "none" -> FALSE
      [] x.k = "num" -> x.v # 0
      [] x.k = "str" -> x.v # ""
      [] x.k = "list" -> x.v # <<>>
      [] x.k = "dict" -> DOMAIN x.v # {}
      [] OTHER -> TRUE

\* JSON text: the serialisation of a value, or text that is no JSON.
Dumps(val) == [k |-> "json", v |-> val]
GarbageText == [k |-> "garbage", v |-> 0]
\* json.loads
Loads(text) == IF text.k = "json" THEN Ok(text.v) ELSE Fail

Repeat(x, n) == [i \in 1..n |-> x]
Take(s, n) == [i \in 1..(IF Len(s) < n THEN Len(s) ELSE n) |-> s[i]]

\* build_dynamic_series, as the list [dynamic_series[key] for key in KEYS]
BuildDynamicSeries(flattened_input, num_timesteps) ==
    [j \in 1..8 |->
        LET key == DYNAMIC_FEATURE_KEYS[j]
            dflt == PyNum(DEFAULT_VALUES[key])
        IN  IF key \in DOMAIN flattened_input /\ flattened_input[key].k = "list"
            THEN LET values == Take(flattened_input[key].v, num_timesteps)
                 IN  PyList(values \o Repeat(dflt, num_timesteps - Len(values)))
            ELSE PyList(Repeat(dflt, num_timesteps))]

\* The record the handler builds itself (flattened and default branches);
\* target, 50 + i * 0.5, is held in halves.
BuiltRecord(now, num_timesteps, series) ==
    PyDict([datetime |-> Iso(now - num_timesteps, "Z"),
            target |-> PyList([i \in 1..num_timesteps |-> PyNum(100 + (i - 1))]),
            feat_dynamic_real |-> PyList(series),
            feat_static_cat |-> PyList(<<PyNum(0)>>)])

SetMax(S) == CHOOSE m \in S : \A x \in S : x <= m

\* Lines 84-123: original_data, or Fail when building it raised.
OriginalData(req_body, now) ==
    IF Truthy(req_body) /\ "data" \in DOMAIN req_body.v THEN Ok(req_body)
    ELSE IF Truthy(req_body) /\ \E j \in 1..8 : DYNAMIC_FEATURE_KEYS[j] \in DOMAIN req_body.v THEN
        LET lens == {Len(req_body.v[key].v) : key \in {x \in DOMAIN req_body.v : req_body.v[x].k = "list"}}
        IN  IF lens = {} THEN Fail
            ELSE LET n == SetMax(lens)
                 IN  Ok(PyDict([data |-> PyList(<<BuiltRecord(now, n, BuildDynamicSeries(req_body.v, n))>>)]))
    ELSE Ok(PyDict([data |-> PyList(<<BuiltRecord(now, DefaultTimesteps,
                 [j \in 1..8 |-> PyList(Repeat(PyNum(DEFAULT_VALUES[DYNAMIC_FEATURE_KEYS[j]]), DefaultTimesteps))])>>)]))

PredictionRow(ts, b, pred, anomaly) ==
    [timestamp |-> ts, building_id |-> b, predicted_energy |-> pred, anomaly |-> anomaly]

RecommendationRow(ts, b, pred, rec) ==
    [timestamp |-> ts, building_id |-> b, predicted_energy |-> pred, recommendation |-> rec]

\* f"temperature_out_of_range:{temp}", f"power_factor_abnormal:{pf}"
AnomalyText(tag, x) == [k |-> "str", v |-> <<tag, x>>]

\* Lines 209-213: the anomaly of one timestep.
Anomaly(temp, pf) ==
    IF ~(10 <= temp /\ temp <= 40) THEN AnomalyText("temperature_out_of_range", temp)
    ELSE IF ~(40 <= pf /\ pf <= 100) THEN AnomalyText("power_factor_abnormal", pf)
    ELSE PyNone

\* Lines 201-207: the eight features of timestep i (0-based), or Fail when
\* the fallback's unpacking raised.
Features(dynamic_data, i) ==
    IF Len(dynamic_data) = 8 /\ \A j \in 1..8 : i < Len(dynamic_data[j].v)
    THEN Ok([j \in 1..8 |-> dynamic_data[j].v[i + 1]])
    ELSE IF Len(dynamic_data) < 8 THEN Fail
    ELSE Ok([j \in 1..8 |->
              IF i < Len(dynamic_data[j].v) THEN dynamic_data[j].v[i + 1]
              ELSE PyNum(DEFAULT_VALUES[DYNAMIC_FEATURE_KEYS[j]])])

\* A variant that reads the forecast one step late.
ForecastAtShifted(forecast, i) ==
    IF forecast.k # "list" THEN Fail
    ELSE LET seq == IF forecast.v[1].k = "list" THEN forecast.v[1].v ELSE forecast.v
         IN  IF i + 1 < Len(seq) THEN Ok(seq[i + 2]) ELSE Fail

\* forecast[0][i] if isinstance(forecast[0], list) else forecast[i]; the
\* forecast is truthy here.  Indexing anything but a list ends the
\* invocation in the handler's except (a dict or a number raises at once, a
\* text is refused by the DOUBLE PRECISION column).
ForecastAt(forecast, i) ==
    IF forecast.k # "list" THEN Fail
    ELSE LET seq == IF forecast.v[1].k = "list" THEN forecast.v[1].v ELSE forecast.v
         IN  IF i < Len(seq) THEN Ok(seq[i + 1]) ELSE Fail

\* One pass of the loop at lines 198-216 for timestep i: the prediction row
\* and the sensor row, or Fail when the pass raised.
Timestep(start, building_id, forecast, dynamic_data, i) ==
    LET pred == ForecastAt(forecast, i)
        feat == Features(dynamic_data, i)
    IN  IF ~pred.ok \/ ~feat.ok THEN Fail
        ELSE LET f == feat.v
             IN  IF f[1].k # "num" \/ (10 <= f[1].v /\ f[1].v <= 40 /\ f[7].k # "num")
                    \/ ~PyFloat(f[3]).ok
                 THEN Fail
                 ELSE Ok([prediction |-> PredictionRow(start + i, building_id, pred.v,
                                                       Anomaly(f[1].v, f[7].v)),
                          sensor |-> SensorRow(start + i, building_id, f[1], f[2],
                                               PyNum(PyFloat(f[3]).v), f[4], f[5], f[6],
                                               f[7], f[8])])

\* Lines 220-228: one postgres_ready record.
PostgresReadyRow(rec) ==
    IF rec.k # "dict"
       \/ {"timestamp", "building_id", "predicted_energy", "recommendation"} \ DOMAIN rec.v # {}
    THEN Fail
    ELSE LET ts == FromIso(SanitizeIsoTimestamp(rec.v["timestamp"]))
             b == PyFloat(rec.v["building_id"])
             pe == PyFloat(rec.v["predicted_energy"])
         IN  IF ts.ok /\ b.ok /\ pe.ok
             THEN Ok(RecommendationRow(ts.v, b.v, PyNum(pe.v), Dumps(rec.v["recommendation"])))
             ELSE Fail

\* Lines 187-233: the three bulks, or Fail when anything raised.
Bulks(original_data, forecast, recs, postgres_ready) ==
    LET data == original_data.v["data"]
    IN  IF data.k # "list" \/ data.v = <<>> \/ data.v[1].k # "dict" THEN Fail
        ELSE LET record == data.v[1].v
             IN  IF {"datetime", "feat_dynamic_real", "target"} \ DOMAIN record # {} THEN Fail
                 ELSE LET cat == Get(record, "feat_static_cat", PyList(<<PyNum(0)>>))
                          start == FromIso(SanitizeIsoTimestamp(record["datetime"]))
                          dynamic_data == record["feat_dynamic_real"].v
                          n == Len(record["target"].v)
                          steps == [i \in 1..n |->
                                      Timestep(start.v, cat.v[1].v, forecast, dynamic_data, i - 1)]
                          pr == IF Truthy(postgres_ready)
                                THEN [j \in 1..Len(postgres_ready.v) |->
                                         PostgresReadyRow(postgres_ready.v[j])]
                                ELSE <<>>
                      IN  IF cat.v = <<>> \/ ~start.ok THEN Fail
                          ELSE IF \E i \in 1..n : ~steps[i].ok THEN Fail
                          ELSE IF \E j \in 1..Len(pr) : ~pr[j].ok THEN Fail
                          ELSE Ok([predictions_bulk |-> [i \in 1..n |-> steps[i].v.prediction],
                                   sensor_data_bulk |-> [i \in 1..n |-> steps[i].v.sensor],
                                   recommendations_bulk |->
                                      IF Truthy(postgres_ready)
                                      THEN [j \in 1..Len(pr) |-> pr[j].v]
                                      ELSE [i \in 1..n |->
                                              RecommendationRow(start.v + (i - 1), cat.v[1].v,
                                                  steps[i].v.prediction.predicted_energy,
                                                  Dumps(IF i <= Len(recs.v)
                                                        THEN recs.v[i]
                                                        ELSE PyDict(<<>>)))]])

\* What a handler invocation did.
Outcome(handler, status, body, posted, connected, committed, pb, rb, sb) ==
    [handler |-> handler, status |-> status, body |-> body, posted |-> posted,
     connected |-> connected, committed |-> committed,
     predictions_bulk |-> pb, recommendations_bulk |-> rb, sensor_data_bulk |-> sb]

\* A response body that is no JSON document.
PlainText(s) == [k |-> "plain", v |-> s]

NoOutcome == Outcome("none", 0, PlainText(""), FALSE, FALSE, FALSE, <<>>, <<>>, <<>>)

PredictError(body, posted, connected) ==
    Outcome("TriggerPrediction", 500, PlainText(body), posted, connected, FALSE,
            <<>>, <<>>, <<>>)

\* A variant that never parses a second time.
UnwrapNever(text) == Loads(text)

\* A variant that parses for as long as the result is a string.
RECURSIVE UnwrapAll(_)
UnwrapAll(text) ==
    LET first == Loads(text)
    IN  IF first.ok /\ first.v.k = "str" THEN UnwrapAll(first.v.v) ELSE first

\* Lines 137-139: json.loads, and once more when the result is a string.
Unwrap(text) ==
    LET first == Loads(text)
    IN  IF first.ok /\ first.v.k = "str" THEN Loads(first.v.v) ELSE first

\* A variant that also reads the forecast from "predictions" and from a
\* bare array.
ForecastOfLenient(payload) ==
    CASE payload.k = "list" -> Ok(payload)
      [] payload.k = "dict" ->
           Ok(IF "forecast" \in DOMAIN payload.v THEN payload.v["forecast"]
              ELSE Get(payload.v, "predictions", PyList(<<>>)))
      [] OTHER -> Fail

\* Line 141: predictions.get("forecast", []); only a dict has get.
ForecastOf(payload) ==
    IF payload.k = "dict" THEN Ok(Get(payload.v, "forecast", PyList(<<>>))) ELSE Fail

\* A variant that tests only that the three variables are present.
EnvCompletePresent(env) == \A j \in 1..3 : env[j].k # "none"

\* Line 75: all([endpoint_url, api_key, db_url])
EnvComplete(env) == \A j \in 1..3 : Truthy(env[j])

\* A value a DOUBLE PRECISION or INT column takes: a number or NULL.  Any
\* other value makes the INSERT raise.
Storable(x) == x.k \in {"num", "none"}

NumericColumns ==
    [predictions |-> {"predicted_energy"},
     recommendations |-> {"predicted_energy"},
     sensor_data |-> {"temperature", "humidity", "occupancy", "energy", "current",
                      "voltage", "power_factor", "power"}]

\* Every statement of cur.executemany on table t succeeds.
Accepted(t, rows) ==
    \A batch \in {rows} :
        \A i \in 1..Len(batch) : \A c \in NumericColumns[t] : Storable(batch[i][c])

\* A variant that commits after each executemany.
TransactionPerStatement(tabs, pb, rb, sb) ==
    LET okP == Accepted("predictions", pb)
        okR == okP /\ Accepted("recommendations", rb)
        okS == okR /\ Accepted("sensor_data", sb)
    IN  [ok |-> okS,
         tabs |-> [predictions |-> IF okP THEN ExecuteMany(tabs.predictions, pb)
                                   ELSE tabs.predictions,
                   recommendations |-> IF okR THEN ExecuteMany(tabs.recommendations, rb)
                                       ELSE tabs.recommendations,
                   sensor_data |-> IF okS THEN ExecuteMany(tabs.sensor_data, sb)
                                   ELSE tabs.sensor_data]]

\* Lines 236-266: the three executemany calls and the one commit.  A
\* statement that raises leaves the transaction uncommitted: the tables
\* are as before.
Transaction(tabs, pb, rb, sb) ==
    IF Accepted("predictions", pb) /\ Accepted("recommendations", rb)
       /\ Accepted("sensor_data", sb)
    THEN [ok |-> TRUE,
          tabs |-> [predictions |-> ExecuteMany(tabs.predictions, pb),
                    recommendations |-> ExecuteMany(tabs.recommendations, rb),
                    sensor_data |-> ExecuteMany(tabs.sensor_data, sb)]]
    ELSE [ok |-> FALSE, tabs |-> tabs]

\* TriggerPrediction.main.  env: <<ENDPOINT_URL, API_KEY, DATABASE_URL>>;
\* resp: what requests.post does; now: utcnow; dbOk: the database accepts
\* the connection and the statements; tabs: the three tables.
TriggerPredictionMain(env, req_body, resp, now, dbOk, tabs) ==
    IF ~EnvComplete(env) THEN
        [out |-> PredictError("Missing environment variables", FALSE, FALSE), tabs |-> tabs]
    ELSE LET od == OriginalData(req_body, now) IN
    IF ~od.ok THEN [out |-> PredictError("Error", FALSE, FALSE), tabs |-> tabs]
    ELSE IF resp.k = "raise" \/ resp.status >= 400 THEN
        [out |-> PredictError("Error", TRUE, FALSE), tabs |-> tabs]
    ELSE LET payload == Unwrap(resp.text) IN
    IF ~payload.ok \/ ~ForecastOf(payload.v).ok THEN
        [out |-> PredictError("Error", TRUE, FALSE), tabs |-> tabs]
    ELSE LET forecast == ForecastOf(payload.v).v IN
    IF ~Truthy(forecast) THEN
        [out |-> PredictError("No forecast returned", TRUE, FALSE), tabs |-> tabs]
    ELSE IF ~dbOk THEN [out |-> PredictError("Error", TRUE, FALSE), tabs |-> tabs]
    ELSE LET b == Bulks(od.v, forecast, Get(payload.v.v, "recommendations", PyList(<<>>)),
                        Get(payload.v.v, "postgres_ready", PyList(<<>>))) IN
    IF ~b.ok THEN [out |-> PredictError("Error", TRUE, TRUE), tabs |-> tabs]
    ELSE LET t == Transaction(tabs, b.v.predictions_bulk, b.v.recommendations_bulk,
                              b.v.sensor_data_bulk) IN
    IF ~t.ok THEN [out |-> Outcome("TriggerPrediction", 500, PlainText("Error"), TRUE, TRUE,
                                   FALSE, b.v.predictions_bulk, b.v.recommendations_bulk,
                                   b.v.sensor_data_bulk),
                   tabs |-> t.tabs]
    ELSE [out |-> Outcome("TriggerPrediction", 200,
                          Dumps(PyDict([status |-> PyStr("success"),
                                        stored_predictions |-> PyNum(Len(b.v.predictions_bulk)),
                                        stored_sensor_data |-> PyNum(Len(b.v.sensor_data_bulk)),
                                        stored_recommendations |->
                                            PyNum(Len(b.v.recommendations_bulk)),
                                        anomalies_detected |->
                                            PyNum(Cardinality({i \in 1..Len(b.v.predictions_bulk) :
                                                Truthy(b.v.predictions_bulk[i].anomaly)}))])),
                          TRUE, TRUE, TRUE,
                          b.v.predictions_bulk, b.v.recommendations_bulk,
                          b.v.sensor_data_bulk),
          tabs |-> t.tabs]

(***************************************************************************)
(* OptimizeEnergy                                                          *)
(***************************************************************************)
WindowHours == 24

\* ORDER BY s.timestamp, s.building_id
RowBefore(r, s) ==
    r.timestamp < s.timestamp
    \/ (r.timestamp = s.timestamp /\ r.building_id <= s.building_id)

RECURSIVE Ordered(_)
Ordered(rows) ==
    IF rows = {} THEN <<>>
    ELSE LET first == CHOOSE r \in rows : \A s \in rows : RowBefore(r, s)
         IN  <<first>> \o Ordered(rows \ {first})

\* The SELECT at lines 27-43: sensor rows of the last 24 hours, each with
\* its prediction or with NULLs.
Joined(sensor, preds, now) ==
    UNION {
        LET ms == {p \in preds : SameKey(p, s)}
        IN  IF ms = {}
            THEN {[timestamp |-> s.timestamp, building_id |-> s.building_id,
                   energy |-> s.energy, occupancy |-> s.occupancy,
                   power_factor |-> s.power_factor, temperature |-> s.temperature,
                   predicted_energy |-> PyNone, anomaly |-> PyNone]}
            ELSE {[timestamp |-> s.timestamp, building_id |-> s.building_id,
                   energy |-> s.energy, occupancy |-> s.occupancy,
                   power_factor |-> s.power_factor, temperature |-> s.temperature,
                   predicted_energy |-> p.predicted_energy, anomaly |-> p.anomaly] : p \in ms}
        : s \in {r \in sensor : r.timestamp >= now - WindowHours}}

Recommendation(priority, tag) ==
    Dumps(PyDict([priority |-> PyStr(priority), tag |-> PyStr(tag)]))

\* "power_factor_abnormal" in anomaly
MentionsPowerFactor(anomaly) == anomaly.k = "str" /\ anomaly.v[1] = "power_factor_abnormal"

\* energy > predicted_energy * 1.2
Spike(energy, predicted_energy) == 10 * energy > 12 * predicted_energy

\* A variant that tests the energy spike before the anomaly.
RuleSpikeFirst(row) ==
    IF Truthy(row.predicted_energy) /\ row.energy.k # "num" THEN Fail
    ELSE IF Truthy(row.predicted_energy) /\ Spike(row.energy.v, row.predicted_energy.v)
    THEN Ok(Recommendation("medium", "energy_spike"))
    ELSE IF Truthy(row.anomaly) /\ MentionsPowerFactor(row.anomaly)
    THEN Ok(Recommendation("high", "power_factor"))
    ELSE IF row.occupancy.k # "num" \/ (row.occupancy.v < 5 /\ row.energy.k # "num") THEN Fail
    ELSE IF row.occupancy.v < 5 /\ row.energy.v > 30
    THEN Ok(Recommendation("medium", "occupancy_mismatch"))
    ELSE IF row.temperature.k # "num" THEN Fail
    ELSE IF row.temperature.v > 26
    THEN Ok(Recommendation("low", "temperature_control"))
    ELSE Ok(Recommendation("low", "normal"))

\* The if/elif chain at lines 52-81 for one row, or Fail when a comparison
\* with None raised.
Rule(row) ==
    IF Truthy(row.anomaly) /\ MentionsPowerFactor(row.anomaly)
    THEN Ok(Recommendation("high", "power_factor"))
    ELSE IF Truthy(row.predicted_energy) /\ row.energy.k # "num" THEN Fail
    ELSE IF Truthy(row.predicted_energy) /\ Spike(row.energy.v, row.predicted_energy.v)
    THEN Ok(Recommendation("medium", "energy_spike"))
    ELSE IF row.occupancy.k # "num" \/ (row.occupancy.v < 5 /\ row.energy.k # "num") THEN Fail
    ELSE IF row.occupancy.v < 5 /\ row.energy.v > 30
    THEN Ok(Recommendation("medium", "occupancy_mismatch"))
    ELSE IF row.temperature.k # "num" THEN Fail
    ELSE IF row.temperature.v > 26
    THEN Ok(Recommendation("low", "temperature_control"))
    ELSE Ok(Recommendation("low", "normal"))

\* generate_recommendations_from_db on the three tables.
GenerateRecommendationsFromDb(tabs, now, dbOk) ==
    IF ~dbOk THEN [outcome |-> "raised", connected |-> FALSE, committed |-> FALSE,
                   rows |-> <<>>, recs |-> <<>>, table |-> tabs.recommendations]
    ELSE LET rows == Ordered(Joined(tabs.sensor_data, tabs.predictions, now))
             rules == [i \in 1..Len(rows) |-> Rule(rows[i])]
             recs == [i \in 1..Len(rows) |->
                        RecommendationRow(rows[i].timestamp, rows[i].building_id,
                            IF Truthy(rows[i].predicted_energy)
                            THEN rows[i].predicted_energy ELSE PyNum(0),
                            rules[i].v)]
         IN  IF \E i \in 1..Len(rows) : ~rules[i].ok
             THEN [outcome |-> "raised", connected |-> TRUE, committed |-> FALSE,
                   rows |-> rows, recs |-> <<>>, table |-> tabs.recommendations]
             ELSE [outcome |-> "returned", connected |-> TRUE, committed |-> TRUE,
                   rows |-> rows, recs |-> recs,
                   table |-> ExecuteMany(tabs.recommendations, recs)]

(***************************************************************************)
(* FetchFirebaseData.main and OptimizeEnergy.main                          *)
(***************************************************************************)
\* FetchFirebaseData.main.  setupOk: the credentials download, the
\* TIMESCALEDB_CONNECTION setting and the Firebase client all succeeded.
FetchMain(snapshot, setupOk, dbOk, table) ==
    IF ~setupOk THEN
        [out |-> Outcome("FetchFirebaseData", 500, PlainText("Error"), FALSE, FALSE, FALSE,
                         <<>>, <<>>, <<>>), table |-> table]
    ELSE IF ~Truthy(snapshot) THEN
        [out |-> Outcome("FetchFirebaseData", 204, PlainText("No sensor data found in Firebase."),
                         FALSE, FALSE, FALSE, <<>>, <<>>, <<>>), table |-> table]
    ELSE LET r == StoreSensorData(snapshot, table, dbOk)
         IN  IF r.outcome = "raised"
             THEN [out |-> Outcome("FetchFirebaseData", 500, PlainText("Error"), FALSE,
                                   r.connected, FALSE, <<>>, <<>>, <<>>), table |-> table]
             ELSE [out |-> Outcome("FetchFirebaseData", 200, Dumps(PyDict(r.flattened)), FALSE,
                                   r.connected, r.committed, <<>>, <<>>, r.rows),
                   table |-> r.table]

\* "Generated {result_count} optimization recommendations successfully."
Generated(count) == [k |-> "plain", v |-> "Generated", count |-> count]

\* OptimizeEnergy.main: the count on success, the error text otherwise;
\* either way a returned string.
OptimizeMain(tabs, now, envOk, dbOk) ==
    LET r == GenerateRecommendationsFromDb(tabs, now, dbOk)
    IN  IF ~envOk THEN
            [out |-> Outcome("OptimizeEnergy", 200, PlainText("Error during optimization"),
                             FALSE, FALSE, FALSE, <<>>, <<>>, <<>>),
             table |-> tabs.recommendations]
        ELSE IF r.outcome = "raised" THEN
            [out |-> Outcome("OptimizeEnergy", 200, PlainText("Error during optimization"),
                             FALSE, r.connected, FALSE, <<>>, <<>>, <<>>),
             table |-> tabs.recommendations]
        ELSE [out |-> Outcome("OptimizeEnergy", 200, Generated(Len(r.recs)), FALSE, TRUE, TRUE,
                              <<>>, r.recs, <<>>),
              table |-> r.table]

(***************************************************************************)
(* Snapshots.                                                              *)
(***************************************************************************)
TsStrings == {Iso(0, ""), Iso(0, "Z"), Iso(1, "+00:00Z")}

LeafValues ==
    {PyDict([temperature |-> PyNum(30), energy |-> PyNum(40), occupancy |-> PyStr("1")]),
     PyDict([temperature |-> PyNum(20), humidity |-> PyNum(50), occupancy |-> PyNum(10),
             energy |-> PyNum(100), current |-> PyNum(5), voltage |-> PyNum(220),
             power_factor |-> PyNum(90), power |-> PyNum(1)]),
     PyDict([temperature |-> PyNone, energy |-> PyNum(40)]),
     PyStr("offline")}

Leaves == {[ts |-> t, values |-> v] : t \in TsStrings, v \in LeafValues}

Injective(f) == \A i, j \in DOMAIN f : i # j => f[i] # f[j]

\* A dict of n leaves: distinct keys, in any order.
ReadingsWith(n) ==
    {PyDict(s) : s \in {q \in [1..n -> Leaves] : Injective([i \in 1..n |-> q[i].ts])}}

\* What a building maps to: a dict of exactly n leaves or, holding no leaf,
\* null.
ReadingsOf(n) == ReadingsWith(n) \cup (IF n = 0 THEN {PyNone} ELSE {})

\* Sequences of readings of at most n nodes (buildings and leaves) in all.
RECURSIVE ReadingSeqs(_)
ReadingSeqs(n) ==
    {<<>>} \cup
    (IF n = 0 THEN {}
     ELSE UNION {{<<r>> \o rest : r \in ReadingsOf(c), rest \in ReadingSeqs(n - 1 - c)} :
                 c \in 0..(n - 1)})

BuildingKeys == {"1", "01", "x"}

Snapshots ==
    {PyList(rs) : rs \in ReadingSeqs(MaxNodes)}
    \cup UNION {{PyDict([i \in 1..Len(rs) |-> [key |-> PyStr(ks[i]), readings |-> rs[i]]]) :
                 ks \in {f \in [1..Len(rs) -> BuildingKeys] : Injective(f)}} :
                rs \in ReadingSeqs(MaxNodes)}
    \cup {PyStr("maintenance"), PyNone}

FetchInput(snapshot, setupOk, dbOk) ==
    [k |-> "fetch", snapshot |-> snapshot, setupOk |-> setupOk, dbOk |-> dbOk]

FetchInputs ==
    {FetchInput(s, TRUE, TRUE) : s \in Snapshots}
    \cup {FetchInput(PyList(<<r>>), ok[1], ok[2]) :
            r \in ReadingsWith(1), ok \in {<<TRUE, FALSE>>, <<FALSE, TRUE>>}}

NoInput == [k |-> "none"]

(***************************************************************************)
(* Requests and responses of TriggerPrediction.                            *)
(***************************************************************************)
EnvValues == {PyNone, PyStr(""), PyStr("set")}
Envs == [1..3 -> EnvValues]
EnvSet == [j \in 1..3 |-> PyStr("set")]

\* One timestep of the eight features, in the order of DYNAMIC_FEATURE_KEYS.
StepFeatures(temp, occ, energy, pf) ==
    <<temp, PyNum(50), occ, energy, PyNum(5), PyNum(220), pf, PyNum(1)>>

Profiles ==
    {StepFeatures(PyNum(25), PyNum(10), PyNum(50), PyNum(95)),
     StepFeatures(PyNum(45), PyNum(10), PyNum(100), PyNum(95)),
     StepFeatures(PyNum(25), PyNum(2), PyNum(100), PyNum(30)),
     StepFeatures(PyNone, PyNum(10), PyNum(50), PyNum(95)),
     StepFeatures(PyNum(25), PyNum(10), PyNone, PyNum(95)),
     <<PyNum(25), PyStr("n/a"), PyNum(10), PyNum(50), PyNum(5), PyNum(220), PyNum(95),
       PyNum(1)>>}

\* feat_dynamic_real for the given steps: full lists, lists one step
\* short, or one list missing.
DynamicData(steps, shape) ==
    LET n == IF shape = "short" /\ Len(steps) > 0 THEN Len(steps) - 1 ELSE Len(steps)
        m == IF shape = "seven" THEN 7 ELSE 8
    IN  PyList([j \in 1..m |-> PyList([i \in 1..n |-> steps[i][j]])])

StepSeqs == UNION {[1..n -> Profiles] : n \in 0..MaxSteps}

DataRecord(ts, steps, shape, cat) ==
    LET base == [datetime |-> ts,
                 target |-> PyList([i \in 1..Len(steps) |-> PyNum(100 + i)]),
                 feat_dynamic_real |-> DynamicData(steps, shape)]
    IN  PyDict(IF cat.k = "none" THEN base
               ELSE [x \in DOMAIN base \cup {"feat_static_cat"} |->
                        IF x = "feat_static_cat" THEN cat ELSE base[x]])

DataRequest(record) == PyDict([data |-> PyList(<<record>>)])

GoodSteps == <<StepFeatures(PyNum(45), PyNum(10), PyNum(100), PyNum(95)),
               StepFeatures(PyNum(25), PyNum(2), PyNum(100), PyNum(30))>>

\* The flattened columns FetchFirebaseData returns for n rows.
FlatRequest(n) ==
    PyDict([key \in {DYNAMIC_FEATURE_KEYS[j] : j \in 1..8} |-> PyList(Repeat(PyNum(30), n))])

CoreRequests ==
    {DataRequest(DataRecord(Iso(0, "Z"), GoodSteps, "full", PyList(<<PyNum(1)>>))),
     DataRequest(DataRecord(Iso(1, "+00:00Z"), Take(GoodSteps, 1), "full", PyNone)),
     FlatRequest(1),
     PyNone}

RichRequests ==
    {DataRequest(DataRecord(ts, steps, shape, cat)) :
        ts \in {Iso(0, "Z"), Iso(1, "+00:00Z"), JunkTs}, steps \in StepSeqs,
        shape \in {"full", "short", "seven"}, cat \in {PyNone, PyList(<<PyNum(1)>>)}}
    \cup {PyDict([data |-> PyList(<<>>)]), PyDict(<<>>), FlatRequest(0),
          PyDict([energy |-> PyList(<<PyNum(100), PyNum(50)>>), temperature |-> PyNum(5)]),
          PyDict([temperature |-> PyNum(5)])}

\* The forecast values the endpoint returns: 60, 70, 80, ...
ForecastValues(n) == [i \in 1..n |-> PyNum(50 + 10 * i)]
\* ... or 65, 75, 85, ...
OtherForecastValues(n) == [i \in 1..n |-> PyNum(55 + 10 * i)]

ForecastObject(forecast) == PyDict([forecast |-> forecast])

PostgresReady(ts) ==
    PyList(<<PyDict([timestamp |-> ts, building_id |-> PyStr("1"),
                     predicted_energy |-> PyNum(60),
                     recommendation |-> PyDict([tag |-> PyStr("remote")])])>>)

Payloads ==
    {ForecastObject(PyList(ForecastValues(n))) : n \in 0..MaxForecast}
    \cup {ForecastObject(PyList(<<PyList(ForecastValues(n))>>)) : n \in 0..MaxForecast}
    \cup {PyDict([predictions |-> PyList(ForecastValues(MaxForecast))]),
          PyList(ForecastValues(MaxForecast)),
          ForecastObject(PyNone), ForecastObject(PyNum(60)),
          PyDict([forecast |-> PyList(ForecastValues(MaxForecast)),
                  recommendations |-> PyList(<<PyDict([tag |-> PyStr("remote")])>>)]),
          PyDict([forecast |-> PyList(ForecastValues(MaxForecast)),
                  postgres_ready |-> PostgresReady(Iso(0, "Z"))]),
          PyDict([forecast |-> PyList(ForecastValues(MaxForecast)),
                  postgres_ready |-> PostgresReady(JunkTs)])}

\* The text of a value encoded `layers` times.
RECURSIVE Encoded(_, _)
Encoded(val, layers) ==
    IF layers = 1 THEN Dumps(val) ELSE Dumps(PyStr(Encoded(val, layers - 1)))

HttpResponse(status, text) == [k |-> "http", status |-> status, text |-> text]
Raised(exc) == [k |-> "raise", status |-> 0, text |-> PlainText(exc)]

CoreResponses ==
    {HttpResponse(200, Encoded(ForecastObject(PyList(ForecastValues(MaxForecast))), 1)),
     HttpResponse(200, Encoded(ForecastObject(PyList(<<PyList(OtherForecastValues(MaxForecast))>>)), 2)),
     HttpResponse(500, PlainText("Internal Server Error"))}

RichResponses ==
    {HttpResponse(200, Encoded(p, n)) : p \in Payloads, n \in 1..MaxLayers}
    \cup {HttpResponse(200, GarbageText), HttpResponse(200, Dumps(PyStr(GarbageText))),
          HttpResponse(404, PlainText("Not Found")),
          Raised("Timeout"), Raised("ConnectionError")}

PredictInput(env, req, resp, dbOk) ==
    [k |-> "predict", env |-> env, req |-> req, resp |-> resp, now |-> 5, dbOk |-> dbOk]

PredictInputs ==
    {PredictInput(EnvSet, q, r, TRUE) : q \in RichRequests, r \in CoreResponses}
    \cup {PredictInput(EnvSet, q, r, TRUE) : q \in CoreRequests, r \in RichResponses}
    \cup {PredictInput(e, q, r, TRUE) : e \in Envs, q \in CoreRequests, r \in CoreResponses}
    \cup {PredictInput(EnvSet, q, r, FALSE) : q \in CoreRequests, r \in CoreResponses}

(***************************************************************************)
(* One invocation of FetchFirebaseData on an empty database.               *)
(***************************************************************************)
vars == <<sensor_data, predictions, recommendations, inp, last, prev, runs,
          instance, events, starters, triggers, starts>>

orchvars == <<instance, events, starters, triggers, starts>>

\* The timers that can fire starter_function.
Starters == {"timer", "manual"}

\* No instance has been created.
NoInstance ==
    [status |-> "None", pc |-> "none", input |-> PyNone, returned |-> Fail,
     result1 |-> PyNone, result2 |-> PyNone, result3 |-> PyNone, output |-> PyNone]

NoOrchestration ==
    /\ instance = NoInstance
    /\ events = <<>>
    /\ starters = [s \in Starters |-> [pc |-> "idle", seen |-> "None"]]
    /\ triggers = 0
    /\ starts = 0

Tables == [sensor_data |-> sensor_data, predictions |-> predictions,
           recommendations |-> recommendations]

EmptyTables == [sensor_data |-> {}, predictions |-> {}, recommendations |-> {}]

InitFetch ==
    /\ NoOrchestration
    /\ sensor_data = {} /\ predictions = {} /\ recommendations = {}
    /\ inp \in FetchInputs
    /\ last = NoOutcome
    /\ prev = EmptyTables
    /\ runs = 0

FetchOnce ==
    /\ runs = 0 /\ inp.k = "fetch"
    /\ LET r == FetchMain(inp.snapshot, inp.setupOk, inp.dbOk, sensor_data)
       IN  sensor_data' = r.table /\ last' = r.out
    /\ runs' = runs + 1
    /\ prev' = Tables
    /\ UNCHANGED <<predictions, recommendations, inp>>
    /\ UNCHANGED orchvars

SpecFetch == InitFetch /\ [][FetchOnce]_vars

(***************************************************************************)
(* One invocation of TriggerPrediction on an empty database.               *)
(***************************************************************************)
InitPredict ==
    /\ NoOrchestration
    /\ sensor_data = {} /\ predictions = {} /\ recommendations = {}
    /\ inp \in PredictInputs
    /\ last = NoOutcome
    /\ prev = EmptyTables
    /\ runs = 0

PredictOnce ==
    /\ runs = 0 /\ inp.k = "predict"
    /\ LET r == TriggerPredictionMain(inp.env, inp.req, inp.resp, inp.now, inp.dbOk, Tables)
       IN  /\ sensor_data' = r.tabs.sensor_data
           /\ predictions' = r.tabs.predictions
           /\ recommendations' = r.tabs.recommendations
           /\ last' = r.out
    /\ runs' = runs + 1
    /\ prev' = Tables
    /\ UNCHANGED inp
    /\ UNCHANGED orchvars

SpecPredict == InitPredict /\ [][PredictOnce]_vars

(***************************************************************************)
(* invoke_http_function, and one invocation of a handler whose upstream    *)
(* call fails.                                                             *)
(***************************************************************************)
\* f"Failed: {function_name} - HTTP {code}", f"Exception: {str(e)}", ...
InvokeText(prefix, text, code) ==
    [k |-> "plain", v |-> prefix, detail |-> [text |-> text, code |-> code]]

\* A variant that calls raise_for_status, as the other callers do.
InvokeHttpFunctionRaising(params, resp) ==
    IF ~Truthy(Get(params, "url", PyNone)) THEN InvokeText("Failed", "Missing URL", 0)
    ELSE IF resp.k = "raise" THEN InvokeText("Exception", resp.text.v, 0)
    ELSE IF resp.status >= 400 THEN InvokeText("Exception", "HTTPError", resp.status)
    ELSE InvokeText("Success", "", 0)

\* invoke_http_function.main(params); resp: what requests.post(url) does.
InvokeHttpFunction(params, resp) ==
    IF ~Truthy(Get(params, "url", PyNone)) THEN InvokeText("Failed", "Missing URL", 0)
    ELSE IF resp.k = "raise" THEN InvokeText("Exception", resp.text.v, 0)
    ELSE IF resp.status >= 400 THEN InvokeText("Failed", "HTTP", resp.status)
    ELSE InvokeText("Success", "", 0)

UpstreamResponses ==
    {Raised("Timeout"), Raised("ConnectionError")}
    \cup {HttpResponse(c, PlainText("error page")) : c \in {400, 404, 500, 503}}
    \cup {HttpResponse(200, GarbageText)}
    \cup CoreResponses

InvokeInput(params, resp) == [k |-> "invoke", params |-> params, resp |-> resp]

InvokeInputs ==
    {InvokeInput(ps, r) :
        ps \in {[function_name |-> PyStr("FetchFirebaseData"), url |-> PyStr("set")],
                [function_name |-> PyStr("FetchFirebaseData"), url |-> PyStr("")],
                [function_name |-> PyStr("FetchFirebaseData")],
                [url |-> PyStr("set")]},
        r \in UpstreamResponses}

UpstreamInputs ==
    {PredictInput(EnvSet, q, r, TRUE) : q \in CoreRequests, r \in UpstreamResponses}
    \cup InvokeInputs

InitUpstream ==
    /\ NoOrchestration
    /\ sensor_data = {} /\ predictions = {} /\ recommendations = {}
    /\ inp \in UpstreamInputs
    /\ last = NoOutcome
    /\ prev = EmptyTables
    /\ runs = 0

InvokeOnce ==
    /\ runs = 0 /\ inp.k = "invoke"
    /\ last' = Outcome("invoke_http_function", 0, InvokeHttpFunction(inp.params, inp.resp),
                       Truthy(Get(inp.params, "url", PyNone)), FALSE, FALSE, <<>>, <<>>, <<>>)
    /\ runs' = runs + 1
    /\ prev' = Tables
    /\ UNCHANGED <<sensor_data, predictions, recommendations, inp>>
    /\ UNCHANGED orchvars

NextUpstream == PredictOnce \/ InvokeOnce

SpecUpstream == InitUpstream /\ [][NextUpstream]_vars

(***************************************************************************)
(* The three handlers invoked in any order on one database.                *)
(***************************************************************************)
LeafA == PyDict([temperature |-> PyNum(30), energy |-> PyNum(40), occupancy |-> PyStr("1")])
LeafB == PyDict([temperature |-> PyNum(20), humidity |-> PyNum(50), occupancy |-> PyNum(10),
                 energy |-> PyNum(100), current |-> PyNum(5), voltage |-> PyNum(220),
                 power_factor |-> PyNum(90), power |-> PyNum(1)])
LeafNull == PyDict([temperature |-> PyNone, energy |-> PyNum(40)])

Leaf(ts, values) == [ts |-> ts, values |-> values]
Building(key, leaves) == [key |-> PyStr(key), readings |-> PyDict(leaves)]

CoreSnapshots ==
    {PyDict(<<Building("1", <<Leaf(Iso(0, ""), LeafA)>>)>>),
     PyDict(<<Building("1", <<Leaf(Iso(0, ""), LeafA)>>),
              Building("01", <<Leaf(Iso(0, "Z"), LeafB)>>)>>),
     PyDict(<<Building("1", <<Leaf(Iso(0, ""), LeafNull), Leaf(Iso(1, ""), LeafB)>>),
              Building("x", <<Leaf(Iso(0, ""), LeafA)>>)>>),
     PyList(<<PyNone, PyDict(<<Leaf(Iso(1, "+00:00Z"), LeafA), Leaf(Iso(1, ""), LeafA)>>)>>)}

CoreFetchInputs ==
    {FetchInput(s, TRUE, TRUE) : s \in CoreSnapshots}
    \cup {FetchInput(PyDict(<<Building("1", <<Leaf(Iso(0, ""), LeafB)>>)>>), TRUE, FALSE)}

CorePredictInputs ==
    {PredictInput(EnvSet, q, r, TRUE) : q \in CoreRequests, r \in CoreResponses}
    \cup {PredictInput(EnvSet, DataRequest(DataRecord(Iso(0, "Z"), GoodSteps, "full",
                                                      PyList(<<PyNum(1)>>))), r, TRUE) :
            r \in {HttpResponse(200, Dumps(PyDict([forecast |-> PyList(ForecastValues(MaxForecast)),
                                                   postgres_ready |->
                                                       PostgresReady(Iso(0, "Z")) ]))),
                   HttpResponse(200, Dumps(PyDict([forecast |-> PyList(ForecastValues(MaxForecast)),
                                                   postgres_ready |->
                                                       PyList(<<PostgresReady(Iso(0, "Z")).v[1],
                                                                PostgresReady(JunkTs).v[1]>>)])))}}
    \cup {PredictInput(EnvSet, DataRequest(DataRecord(Iso(0, "Z"),
                <<GoodSteps[1], <<PyNum(25), PyStr("n/a"), PyNum(10), PyNum(50), PyNum(5),
                                  PyNum(220), PyNum(95), PyNum(1)>> >>, "full",
                PyList(<<PyNum(1)>>))),
            HttpResponse(200, Dumps(ForecastObject(PyList(ForecastValues(MaxForecast))))), TRUE)}
    \cup {PredictInput(EnvSet, DataRequest(DataRecord(Iso(0, "Z"),
                <<GoodSteps[1], StepFeatures(PyNone, PyNum(10), PyNum(50), PyNum(95))>>, "full",
                PyList(<<PyNum(1)>>))),
            HttpResponse(200, Dumps(ForecastObject(PyList(ForecastValues(MaxForecast))))), TRUE)}
    \cup {PredictInput(EnvSet, DataRequest(DataRecord(Iso(0, "Z"),
                <<StepFeatures(PyNum(25), PyNum(10), PyNone, PyNum(95))>>, "full",
                PyList(<<PyNum(1)>>))),
            HttpResponse(200, Dumps(ForecastObject(PyList(ForecastValues(MaxForecast))))), ok) :
            ok \in BOOLEAN}

OptimizeInput(now, envOk, dbOk) == [k |-> "optimize", now |-> now, envOk |-> envOk, dbOk |-> dbOk]

CoreOptimizeInputs ==
    {OptimizeInput(5, TRUE, TRUE), OptimizeInput(5 + WindowHours, TRUE, TRUE),
     OptimizeInput(5, TRUE, FALSE), OptimizeInput(5, FALSE, TRUE)}

InitDb ==
    /\ NoOrchestration
    /\ sensor_data = {} /\ predictions = {} /\ recommendations = {}
    /\ inp = NoInput
    /\ last = NoOutcome
    /\ prev = EmptyTables
    /\ runs = 0

FetchRun ==
    /\ runs < MaxRuns
    /\ \E i \in CoreFetchInputs :
          LET r == FetchMain(i.snapshot, i.setupOk, i.dbOk, sensor_data)
          IN  sensor_data' = r.table /\ last' = r.out /\ inp' = i
    /\ runs' = runs + 1
    /\ prev' = Tables
    /\ UNCHANGED <<predictions, recommendations>>
    /\ UNCHANGED orchvars

PredictRun ==
    /\ runs < MaxRuns
    /\ \E i \in CorePredictInputs :
          LET r == TriggerPredictionMain(i.env, i.req, i.resp, i.now, i.dbOk, Tables)
          IN  /\ sensor_data' = r.tabs.sensor_data
              /\ predictions' = r.tabs.predictions
              /\ recommendations' = r.tabs.recommendations
              /\ last' = r.out /\ inp' = i
    /\ runs' = runs + 1
    /\ prev' = Tables
    /\ UNCHANGED orchvars

OptimizeRun ==
    /\ runs < MaxRuns
    /\ \E i \in CoreOptimizeInputs :
          LET r == OptimizeMain(Tables, i.now, i.envOk, i.dbOk)
          IN  recommendations' = r.table /\ last' = r.out /\ inp' = i
    /\ runs' = runs + 1
    /\ prev' = Tables
    /\ UNCHANGED <<sensor_data, predictions>>
    /\ UNCHANGED orchvars

NextDb == FetchRun \/ PredictRun \/ OptimizeRun

SpecDb == InitDb /\ [][NextDb]_vars

(***************************************************************************)
(* The durable orchestration: starter_function, orchestrator_function and  *)
(* the three activities, each of which calls its HTTP handler.             *)
(***************************************************************************)
InFlight == {"Running", "Pending"}

Scheduled(name, input) ==
    [kind |-> "scheduled", name |-> name, input |-> input, result |-> Fail, out |-> NoOutcome]

Completed(name, input, result, out) ==
    [kind |-> "completed", name |-> name, input |-> input, result |-> result, out |-> out]

\* A variant that hands every later activity the first result.
ActivityInputFirst(name, result1, result2) ==
    IF name = "CallFetchFirebaseData" THEN PyNone ELSE result1

\* The second argument of each context.call_activity
ActivityInput(name, result1, result2) ==
    CASE name = "CallFetchFirebaseData" -> PyNone
      [] name = "CallTriggerPrediction" -> result1
      [] name = "CallOptimizeEnergy" -> result2

\* response.raise_for_status(); return response.text
ResponseText(out) == IF out.status >= 400 THEN Fail ELSE Ok(out.body)

\* return {"error": str(e)}
ErrorResult == PyDict([error |-> PyStr("Activity function failed")])

\* client.get_status(instance_id)
StarterGetStatus(s) ==
    /\ starters[s].pc = "idle"
    /\ triggers < MaxTriggers
    /\ starters' = [starters EXCEPT ![s] = [pc |-> "checked", seen |-> instance.status]]
    /\ triggers' = triggers + 1
    /\ UNCHANGED <<sensor_data, predictions, recommendations, inp, last, prev, runs,
                   instance, events, starts>>

\* The status read was Running or Pending: return without starting.
StarterSkip(s) ==
    /\ starters[s].pc = "checked"
    /\ starters[s].seen \in InFlight
    /\ starters' = [starters EXCEPT ![s].pc = "idle"]
    /\ UNCHANGED <<sensor_data, predictions, recommendations, inp, last, prev, runs,
                   instance, events, triggers, starts>>

\* client.start_new("orchestrator_function", instance_id): a new instance
\* under the fixed id; when one is in flight the client either replaces it
\* or raises, which main catches and logs.
StarterStartNew(s) ==
    /\ starters[s].pc = "checked"
    /\ starters[s].seen \notin InFlight
    /\ starters' = [starters EXCEPT ![s].pc = "idle"]
    /\ starts' = starts + 1
    /\ \/ /\ instance' = [NoInstance EXCEPT !.status = "Pending", !.pc = "pending"]
          /\ events' = <<>>
       \/ /\ instance.status \in InFlight
          /\ UNCHANGED <<instance, events>>
    /\ UNCHANGED <<sensor_data, predictions, recommendations, inp, last, prev, runs, triggers>>

\* result1 = yield context.call_activity("CallFetchFirebaseData", None)
OrchestratorStart ==
    /\ instance.status = "Pending"
    /\ instance' = [instance EXCEPT !.status = "Running", !.pc = "wait1",
                       !.input = ActivityInput("CallFetchFirebaseData", PyNone, PyNone)]
    /\ events' = Append(events, Scheduled("CallFetchFirebaseData",
                                          ActivityInput("CallFetchFirebaseData", PyNone, PyNone)))
    /\ UNCHANGED <<sensor_data, predictions, recommendations, inp, last, prev, runs,
                   starters, triggers, starts>>

OrchSnapshot == PyDict(<<Building("1", <<Leaf(Iso(0, ""), LeafB)>>)>>)

OrchFetchInputs ==
    {FetchInput(OrchSnapshot, TRUE, TRUE), FetchInput(PyNone, TRUE, TRUE),
     FetchInput(OrchSnapshot, FALSE, TRUE)}

\* The request could not be sent, or the URL setting is missing.
Unreachable == [k |-> "unreachable"]

\* The activity CallFetchFirebaseData: POST to FetchFirebaseData.
CallFetchFirebaseData ==
    /\ instance.pc = "wait1"
    /\ \E i \in OrchFetchInputs \cup {Unreachable} :
          LET r == IF i = Unreachable THEN [out |-> NoOutcome, table |-> sensor_data]
                   ELSE FetchMain(i.snapshot, i.setupOk, i.dbOk, sensor_data)
              returned == IF i = Unreachable THEN Fail ELSE ResponseText(r.out)
          IN  /\ sensor_data' = r.table /\ last' = r.out /\ inp' = i
              /\ instance' = [instance EXCEPT !.pc = "got1", !.returned = returned]
              /\ events' = Append(events, Completed("CallFetchFirebaseData", instance.input,
                                                    returned, r.out))
    /\ runs' = runs + 1
    /\ prev' = Tables
    /\ UNCHANGED <<predictions, recommendations, starters, triggers, starts>>

\* The orchestrator resumed after step 1: step 2 with result1, or the
\* except branch when the activity failed.
OrchestratorAfterFetch ==
    /\ instance.pc = "got1"
    /\ IF instance.returned.ok
       THEN LET result1 == instance.returned.v
                input == ActivityInput("CallTriggerPrediction", result1, instance.result2)
            IN  /\ instance' = [instance EXCEPT !.result1 = result1, !.pc = "wait2",
                                   !.input = input]
                /\ events' = Append(events, Scheduled("CallTriggerPrediction", input))
       ELSE /\ instance' = [instance EXCEPT !.status = "Completed", !.pc = "done",
                               !.output = ErrorResult]
            /\ UNCHANGED events
    /\ UNCHANGED <<sensor_data, predictions, recommendations, inp, last, prev, runs,
                   starters, triggers, starts>>

OrchPredictInputs ==
    {[k |-> "endpoint", resp |-> r, dbOk |-> ok] : r \in CoreResponses, ok \in BOOLEAN}

\* The activity CallTriggerPrediction: json.loads(input_data), then POST
\* to TriggerPrediction.
CallTriggerPrediction ==
    /\ instance.pc = "wait2"
    /\ \E json_data \in {Loads(instance.input)} :
        \E i \in OrchPredictInputs \cup {Unreachable} :
          LET sent == json_data.ok /\ i # Unreachable
          IN  \E r \in {IF sent
                        THEN TriggerPredictionMain(EnvSet, json_data.v, i.resp, 5, i.dbOk,
                                                   Tables)
                        ELSE [out |-> NoOutcome, tabs |-> Tables]} :
                LET returned == IF sent THEN ResponseText(r.out) ELSE Fail
                IN  /\ sensor_data' = r.tabs.sensor_data
                    /\ predictions' = r.tabs.predictions
                    /\ recommendations' = r.tabs.recommendations
                    /\ last' = r.out /\ inp' = i
                    /\ instance' = [instance EXCEPT !.pc = "got2", !.returned = returned]
                    /\ events' = Append(events, Completed("CallTriggerPrediction",
                                                          instance.input, returned, r.out))
    /\ runs' = runs + 1
    /\ prev' = Tables
    /\ UNCHANGED <<starters, triggers, starts>>

\* The orchestrator resumed after step 2.
OrchestratorAfterPrediction ==
    /\ instance.pc = "got2"
    /\ IF instance.returned.ok
       THEN LET result2 == instance.returned.v
                input == ActivityInput("CallOptimizeEnergy", instance.result1, result2)
            IN  /\ instance' = [instance EXCEPT !.result2 = result2, !.pc = "wait3",
                                   !.input = input]
                /\ events' = Append(events, Scheduled("CallOptimizeEnergy", input))
       ELSE /\ instance' = [instance EXCEPT !.status = "Completed", !.pc = "done",
                               !.output = ErrorResult]
            /\ UNCHANGED events
    /\ UNCHANGED <<sensor_data, predictions, recommendations, inp, last, prev, runs,
                   starters, triggers, starts>>

OrchOptimizeInputs == {OptimizeInput(5, TRUE, ok) : ok \in BOOLEAN}

\* The activity CallOptimizeEnergy: POST to OptimizeEnergy.
CallOptimizeEnergy ==
    /\ instance.pc = "wait3"
    /\ \E i \in OrchOptimizeInputs \cup {Unreachable} :
          LET r == IF i = Unreachable THEN [out |-> NoOutcome, table |-> recommendations]
                   ELSE OptimizeMain(Tables, i.now, i.envOk, i.dbOk)
              returned == IF i = Unreachable THEN Fail ELSE ResponseText(r.out)
          IN  /\ recommendations' = r.table /\ last' = r.out /\ inp' = i
              /\ instance' = [instance EXCEPT !.pc = "got3", !.returned = returned]
              /\ events' = Append(events, Completed("CallOptimizeEnergy", instance.input,
                                                    returned, r.out))
    /\ runs' = runs + 1
    /\ prev' = Tables
    /\ UNCHANGED <<sensor_data, predictions, starters, triggers, starts>>

\* The orchestrator resumed after step 3: the three results, or the except
\* branch.
OrchestratorAfterOptimize ==
    /\ instance.pc = "got3"
    /\ IF instance.returned.ok
       THEN instance' = [instance EXCEPT !.result3 = instance.returned.v,
                            !.status = "Completed", !.pc = "done",
                            !.output = PyDict([fetch_firebase_result |-> instance.result1,
                                               trigger_prediction_result |-> instance.result2,
                                               optimize_energy_result |-> instance.returned.v])]
       ELSE instance' = [instance EXCEPT !.status = "Completed", !.pc = "done",
                            !.output = ErrorResult]
    /\ UNCHANGED <<sensor_data, predictions, recommendations, inp, last, prev, runs,
                   events, starters, triggers, starts>>

InitOrch ==
    /\ NoOrchestration
    /\ sensor_data = {} /\ predictions = {} /\ recommendations = {}
    /\ inp = NoInput
    /\ last = NoOutcome
    /\ prev = EmptyTables
    /\ runs = 0

NextOrch ==
    \/ \E s \in Starters : StarterGetStatus(s)
    \/ \E s \in Starters : StarterSkip(s)
    \/ \E s \in Starters : StarterStartNew(s)
    \/ OrchestratorStart
    \/ CallFetchFirebaseData
    \/ OrchestratorAfterFetch
    \/ CallTriggerPrediction
    \/ OrchestratorAfterPrediction
    \/ CallOptimizeEnergy
    \/ OrchestratorAfterOptimize

SpecOrch == InitOrch /\ [][NextOrch]_vars

(***************************************************************************)
(* C1: leaves and rows of store_sensor_data.                               *)
(***************************************************************************)
\* The leaves of a snapshot in iteration order, each with its building key.
AllLeaves(snapshot) ==
    LET items == Items(snapshot)
        Pos == {<<e, j>> \in (1..Len(items)) \X (1..MaxNodes) :
                   items[e].readings.k = "dict" /\ j <= Len(items[e].readings.v)}
    IN  {[key |-> items[p[1]].key, leaf |-> items[p[1]].readings.v[p[2]], at |-> p] : p \in Pos}

Numeric(x) == x.k = "num" \/ (x.k = "str" /\ x.v \in {"0", "1", "01", "20"})

TimestampParses(ts) == ts.k = "iso" /\ ts.sfx \in {"", "Z", "+00:00"}

WellFormed(l) ==
    /\ TimestampParses(l.leaf.ts)
    /\ Numeric(l.key)
    /\ l.leaf.values.k = "dict"
    /\ \A f \in DOMAIN l.leaf.values.v : Numeric(l.leaf.values.v[f])

Stored(snapshot) ==
    /\ inp.k = "fetch" /\ inp.snapshot = snapshot /\ inp.snapshot.k \in {"dict", "list"}
    /\ last.handler = "FetchFirebaseData" /\ last.connected

\* C1 (as amended): store_sensor_data writes exactly one row for every leaf
\* whose timestamp parses, whose building key is a number and whose present
\* fields are all numbers; it drops every other leaf and still commits and
\* returns.
C1_RowPerWellFormedLeaf ==
    Stored(inp.snapshot) =>
        LET good == {l \in AllLeaves(inp.snapshot) : WellFormed(l)}
            rows == last.sensor_data_bulk
        IN  /\ last.status = 200 /\ last.committed
            /\ Len(rows) = Cardinality(good)
            /\ \A l \in good : \E i \in 1..Len(rows) :
                   /\ rows[i].timestamp = l.leaf.ts.h
                   /\ PyNum(rows[i].building_id) = PyNum(PyFloat(l.key).v)
                   /\ rows[i].energy = PyNum(PyFloat(Get(l.leaf.values.v, "energy", PyNum(0))).v)
            /\ \A i \in 1..Len(rows) : \E r \in sensor_data : SameKey(r, rows[i])

\* A malformed leaf is dropped and the well-formed leaf after it is stored.
C1_Witness ==
    /\ Stored(inp.snapshot)
    /\ \E l, m \in AllLeaves(inp.snapshot) :
          /\ l.at[1] = m.at[1] /\ l.at[2] < m.at[2]
          /\ ~WellFormed(l) /\ TimestampParses(l.leaf.ts) /\ WellFormed(m)
    /\ Len(last.sensor_data_bulk) >= 1

\* C1 (as claimed): every leaf whose timestamp string parses produces
\* exactly one row.
C1_RowPerParsedTimestamp ==
    Stored(inp.snapshot) =>
        Len(last.sensor_data_bulk)
          = Cardinality({l \in AllLeaves(inp.snapshot) : TimestampParses(l.leaf.ts)})

(***************************************************************************)
(* C3, C5, C9, C10: TriggerPrediction.main.                                *)
(***************************************************************************)
Predicted == inp.k = "predict" /\ last.handler = "TriggerPrediction"

NothingStored == sensor_data = {} /\ predictions = {} /\ recommendations = {}

\* The object a response of one or two layers carries.
Carried(resp) == IF resp.text.v.k = "str" THEN resp.text.v.v.v ELSE resp.text.v

\* The forecast sequence of an object: forecast, or forecast[0] when nested.
Sequence(forecast) == IF forecast.v[1].k = "list" THEN forecast.v[1].v ELSE forecast.v

\* The record a request stands for: its start hour and its number of steps.
RecordOf(req, now) ==
    IF Truthy(req) /\ "data" \in DOMAIN req.v
    THEN [start |-> req.v["data"].v[1].v["datetime"].h,
          steps |-> Len(req.v["data"].v[1].v["target"].v)]
    ELSE IF Truthy(req)
    THEN LET n == SetMax({Len(req.v[x].v) : x \in {y \in DOMAIN req.v : req.v[y].k = "list"}})
         IN  [start |-> now - n, steps |-> n]
    ELSE [start |-> now - 5, steps |-> 5]

\* C3: a double-encoded response is unwrapped by exactly one layer and
\* gives the outcome, the forecast values and the rows of the same response
\* encoded once; a response encoded more than twice is not unwrapped
\* further and stores nothing.
C3_DoubleEncodedAsSingle ==
    (Predicted /\ EnvComplete(inp.env) /\ inp.resp.k = "http" /\ inp.resp.status = 200
       /\ inp.resp.text.k = "json" /\ inp.resp.text.v.k = "str") =>
        LET inner == inp.resp.text.v.v
        IN  IF inner.k = "json" /\ inner.v.k = "str"
            THEN last.status = 500 /\ ~last.committed /\ NothingStored
            ELSE LET single == TriggerPredictionMain(inp.env, inp.req, HttpResponse(200, inner),
                                                     inp.now, inp.dbOk, prev)
                 IN  /\ last = single.out
                     /\ predictions = single.tabs.predictions
                     /\ recommendations = single.tabs.recommendations
                     /\ sensor_data = single.tabs.sensor_data
                     /\ last.status = 200 =>
                           \A i \in 1..Len(last.predictions_bulk) :
                              last.predictions_bulk[i].predicted_energy
                                = Sequence(inner.v.v["forecast"])[i]

C3_Witness ==
    /\ Predicted /\ inp.resp.k = "http" /\ inp.resp.text.k = "json"
    /\ inp.resp.text.v.k = "str" /\ inp.resp.text.v.v.k = "json"
    /\ inp.resp.text.v.v.v.k = "dict"
    /\ last.status = 200 /\ Cardinality(predictions) = 2

\* C5: with ENDPOINT_URL, API_KEY or DATABASE_URL missing or empty the
\* handler answers 500 "Missing environment variables" and has made no POST
\* and no database connection.
C5_MissingEnvShortCircuits ==
    (Predicted /\ \E j \in 1..3 : inp.env[j] = PyNone \/ inp.env[j] = PyStr("")) =>
        /\ last.status = 500 /\ last.body = PlainText("Missing environment variables")
        /\ ~last.posted /\ ~last.connected /\ ~last.committed
        /\ NothingStored

C5_Witness ==
    /\ Predicted /\ inp.env = <<PyStr("set"), PyStr(""), PyStr("set")>>
    /\ inp.req \in CoreRequests
    /\ inp.resp = HttpResponse(200, Encoded(ForecastObject(PyList(ForecastValues(MaxForecast))), 1))
    /\ last.status = 500 /\ ~last.posted

\* The inputs on which only the shape of the response decides: settings
\* present, a well-formed request, a reachable database, a successful
\* response encoded once or twice.
ShapeDecides ==
    /\ Predicted /\ EnvComplete(inp.env) /\ inp.dbOk /\ inp.req \in CoreRequests
    /\ inp.resp.k = "http" /\ inp.resp.status = 200 /\ inp.resp.text.k = "json"
    /\ (inp.resp.text.v.k = "str" =>
          inp.resp.text.v.v.k = "json" /\ inp.resp.text.v.v.v.k # "str")

FullList(x) == x.k = "list" /\ Len(x.v) = MaxForecast /\ x.v[1].k = "num"

C10_RowsAlignedWithTimestamps ==
    (Predicted /\ last.status = 200) =>
        LET rec == RecordOf(inp.req, inp.now)
            seq == Sequence(Carried(inp.resp).v["forecast"])
            rows == last.predictions_bulk
        IN  /\ Len(rows) = rec.steps
            /\ \A i \in 1..rec.steps :
                  /\ rows[i].timestamp = rec.start + (i - 1)
                  /\ rows[i].predicted_energy = seq[i]
            /\ Cardinality(predictions) = rec.steps
            /\ \A i \in 1..rec.steps : rows[i] \in predictions

C10_Witness ==
    /\ Predicted /\ last.status = 200
    /\ RecordOf(inp.req, inp.now).steps = 2
    /\ Carried(inp.resp).v["forecast"].v[1].k = "list"
    /\ Len(Sequence(Carried(inp.resp).v["forecast"])) > 2
    /\ Cardinality(predictions) = 2

(***************************************************************************)
(* C2, C4: upserts and rule precedence on one database.                    *)
(***************************************************************************)
KeyOf(r) == <<r.timestamp, r.building_id>>

\* What the last invocation wrote to each table, in order.
Written ==
    [sensor_data |-> last.sensor_data_bulk, predictions |-> last.predictions_bulk,
     recommendations |-> last.recommendations_bulk]

\* The row of a batch that was written last for a key.
LastWrite(batch, key) ==
    batch[CHOOSE i \in 1..Len(batch) :
             KeyOf(batch[i]) = key /\ \A j \in (i + 1)..Len(batch) : KeyOf(batch[j]) # key]

\* C2: after a committed batch, each table holds for every key of the
\* batch exactly one row, the one written last for that key, whether the
\* key was written before in the same batch or in an earlier run.
C2_UpsertKeepsLastWrite ==
    last.committed =>
        \A t \in {"sensor_data", "predictions", "recommendations"} :
            \A i \in 1..Len(Written[t]) :
                {r \in Tables[t] : KeyOf(r) = KeyOf(Written[t][i])}
                    = {LastWrite(Written[t], KeyOf(Written[t][i]))}

\* A key written twice in one batch, with a row of an earlier run replaced
\* by different values.
C2_Witness ==
    /\ last.committed
    /\ \E i, j \in 1..Len(last.sensor_data_bulk) :
          /\ i < j /\ KeyOf(last.sensor_data_bulk[i]) = KeyOf(last.sensor_data_bulk[j])
          /\ last.sensor_data_bulk[i] # last.sensor_data_bulk[j]
          /\ \E r \in prev.sensor_data :
                KeyOf(r) = KeyOf(last.sensor_data_bulk[j]) /\ r # last.sensor_data_bulk[j]
    /\ Cardinality({KeyOf(r) : r \in sensor_data}) = Cardinality(sensor_data)

Optimized == last.handler = "OptimizeEnergy" /\ last.committed

TagOf(rec) == rec.recommendation.v.v["tag"].v

\* The rows the optimize run read: sensor rows in the window, with their
\* prediction when there is one.
Read ==
    {[s |-> y[1], p |-> y[2]] :
        y \in {z \in sensor_data \X predictions :
                  SameKey(z[1], z[2]) /\ z[1].timestamp >= inp.now - WindowHours}}

IsSpike(x) == x.p.predicted_energy.k = "num" /\ x.s.energy.k = "num"
              /\ 10 * x.s.energy.v > 12 * x.p.predicted_energy.v

\* C4 (as amended): a row whose anomaly tag names power_factor_abnormal and
\* whose energy exceeds 1.2 * predicted_energy gets the power_factor
\* recommendation, not energy_spike.
C4_PowerFactorBeforeSpike ==
    Optimized =>
        \A x \in Read :
            (x.p.anomaly.k = "str" /\ x.p.anomaly.v[1] = "power_factor_abnormal" /\ IsSpike(x))
            => \E r \in recommendations : SameKey(r, x.s) /\ TagOf(r) = "power_factor"

C4_Witness ==
    /\ Optimized
    /\ \E x \in Read :
          /\ x.p.anomaly.k = "str" /\ x.p.anomaly.v[1] = "power_factor_abnormal" /\ IsSpike(x)
          /\ \E r \in recommendations : SameKey(r, x.s) /\ TagOf(r) = "power_factor"

\* C4 (as claimed): every row with a non-empty anomaly tag and an energy
\* spike gets the anomaly-based recommendation, not energy_spike.
C4_AnomalyBeforeSpike ==
    Optimized =>
        \A x \in Read :
            (x.p.anomaly.k = "str" /\ IsSpike(x))
            => \E r \in recommendations : SameKey(r, x.s) /\ TagOf(r) # "energy_spike"

(***************************************************************************)
(* C6, C7, C8: the orchestration.                                          *)
(***************************************************************************)
Stages == <<"CallFetchFirebaseData", "CallTriggerPrediction", "CallOptimizeEnergy">>

Succeeded == instance.status = "Completed" /\ "error" \notin DOMAIN instance.output.v

\* C6: the activities are scheduled in the order CallFetchFirebaseData,
\* CallTriggerPrediction, CallOptimizeEnergy, each only after the one before
\* it has completed; the second receives what the first returned and the
\* third what the second returned; a successful run returns all three
\* results.
C6_StagesInOrder ==
    /\ Len(events) <= 2 * Len(Stages)
    /\ \A i \in 1..Len(events) :
          /\ events[i].name = Stages[(i + 1) \div 2]
          /\ events[i].kind = (IF i % 2 = 1 THEN "scheduled" ELSE "completed")
          /\ (i % 2 = 1 /\ i > 1) => /\ events[i - 1].result.ok
                                     /\ events[i].input = events[i - 1].result.v
          /\ i % 2 = 0 => events[i].input = events[i - 1].input
    /\ Succeeded =>
          /\ Len(events) = 2 * Len(Stages)
          /\ instance.output = PyDict([fetch_firebase_result |-> events[2].result.v,
                                       trigger_prediction_result |-> events[4].result.v,
                                       optimize_energy_result |-> events[6].result.v])

\* A run through all three stages in which the second result differs from
\* the first.
C6_Witness ==
    /\ Succeeded
    /\ Len(events) = 6
    /\ events[3].input = events[2].result.v
    /\ events[5].input = events[4].result.v
    /\ events[4].result.v # events[2].result.v
    /\ events[4].out.committed

\* A stage failed: its handler answered 4xx/5xx or 204, the activity raised,
\* or the optimize handler's database work raised.
StageFailed(e) ==
    /\ e.kind = "completed"
    /\ \/ ~e.result.ok
       \/ e.out.status >= 400
       \/ e.out.status = 204
       \/ e.out.handler = "OptimizeEnergy" /\ ~e.out.committed

ErrorTaggedOnFailure ==
    (instance.status = "Completed" /\ \E i \in 1..Len(events) : StageFailed(events[i]))
        => "error" \in DOMAIN instance.output.v

NoStageAfterFailure ==
    \A i \in 1..Len(events) : StageFailed(events[i]) => i = Len(events)

\* C7: when a stage fails, the optimize stage included, the orchestration
\* result is the error-tagged payload and no stage is invoked after the
\* failed one.
C7_FailureEndsInError == ErrorTaggedOnFailure /\ NoStageAfterFailure

\* C8: start_new is never executed while the instance is Running or Pending.
C8_NoStartWhileInFlight ==
    [][starts' # starts => instance.status \notin InFlight]_vars

(***************************************************************************)
(* C11: one transaction per invocation.                                    *)
(***************************************************************************)
EndedInError ==
    \/ last.status >= 400
    \/ last.handler = "OptimizeEnergy" /\ last.body = PlainText("Error during optimization")

Keys(batch) == {KeyOf(batch[i]) : i \in 1..Len(batch)}

\* C11: an invocation that ends in an error leaves the three tables as
\* they were before it; one that does not leaves in each table the rows
\* of its batch, all of them, over the rows it did not write.
C11_SingleTransaction ==
    /\ EndedInError => Tables = prev
    /\ ~EndedInError =>
          \A t \in {"sensor_data", "predictions", "recommendations"} :
              Tables[t] = {r \in prev[t] : KeyOf(r) \notin Keys(Written[t])}
                          \cup {LastWrite(Written[t], k) : k \in Keys(Written[t])}

\* TriggerPrediction's third executemany raised after the first two had run
\* with rows the tables did not hold.
C11_Witness ==
    /\ last.handler = "TriggerPrediction" /\ last.status = 500
    /\ Accepted("predictions", last.predictions_bulk)
    /\ Accepted("recommendations", last.recommendations_bulk)
    /\ ~Accepted("sensor_data", last.sensor_data_bulk)
    /\ \E k \in Keys(last.predictions_bulk) : \A r \in prev.predictions : KeyOf(r) # k
    /\ prev.sensor_data # {}
    /\ Tables = prev

(***************************************************************************)
(* C12: records that fail to parse.                                        *)
(***************************************************************************)
\* store_sensor_data: every well-formed leaf of the snapshot has its row.
LeavesSkippedAlone ==
    Stored(inp.snapshot) =>
        \A l \in {m \in AllLeaves(inp.snapshot) : WellFormed(m)} :
            /\ last.committed
            /\ \E r \in sensor_data :
                  r.timestamp = l.leaf.ts.h /\ r.building_id = PyFloat(l.key).v

\* The request carries one record of full feature lists with a timestamp
\* that parses, and the handler reached the database.
RecordReached ==
    /\ Predicted /\ last.connected
    /\ Truthy(inp.req) /\ "data" \in DOMAIN inp.req.v
    /\ LET record == inp.req.v["data"].v[1].v
       IN  /\ FromIso(SanitizeIsoTimestamp(record["datetime"])).ok
           /\ Len(record["feat_dynamic_real"].v) = 8
           /\ \A j \in 1..8 : Len(record["feat_dynamic_real"].v[j].v) = Len(record["target"].v)

\* The eight features of timestep i are numbers.
StepParses(record, i) == \A j \in 1..8 : record["feat_dynamic_real"].v[j].v[i].k = "num"

\* TriggerPrediction.main: every timestep whose features are numbers has
\* its prediction row written.
TimestepsSkippedAlone ==
    RecordReached =>
        LET record == inp.req.v["data"].v[1].v
            start == FromIso(SanitizeIsoTimestamp(record["datetime"])).v
        IN  \A i \in 1..Len(record["target"].v) :
                StepParses(record, i) =>
                    /\ last.committed
                    /\ \E k \in 1..Len(last.predictions_bulk) :
                          /\ last.predictions_bulk[k].timestamp = start + (i - 1)
                          /\ last.predictions_bulk[k] \in predictions

\* TriggerPrediction.main: every postgres_ready record that parses has its
\* recommendation row written.
ReadyRecordsSkippedAlone ==
    (RecordReached /\ "postgres_ready" \in DOMAIN Carried(inp.resp).v) =>
        LET ready == Carried(inp.resp).v["postgres_ready"].v
        IN  \A j \in 1..Len(ready) :
                PostgresReadyRow(ready[j]).ok =>
                    last.committed /\ PostgresReadyRow(ready[j]).v \in recommendations

\* generate_recommendations_from_db: every fetched row whose fields the
\* rules can compare has its recommendation written.
JoinedRowsSkippedAlone ==
    (last.handler = "OptimizeEnergy" /\ last.connected) =>
        \A x \in Joined(sensor_data, predictions, inp.now) :
            Rule(x).ok =>
                /\ last.committed
                /\ \E r \in recommendations : SameKey(r, x) /\ r.recommendation = Rule(x).v

\* C12: in every stage a record that fails to parse is skipped alone and
\* the rest of the batch is written.
C12_BadRecordSkippedAlone ==
    /\ LeavesSkippedAlone
    /\ TimestepsSkippedAlone
    /\ ReadyRecordsSkippedAlone
    /\ JoinedRowsSkippedAlone

(***************************************************************************)
(* C13: what the caller sees when the upstream call fails.                 *)
(***************************************************************************)
FailureKind(resp) ==
    IF resp.k = "raise" THEN resp.text.v
    ELSE IF resp.status >= 400 THEN "HTTPError"
    ELSE "none"

Invoked == inp.k = "invoke" /\ last.handler = "invoke_http_function"

UpstreamFailed == last.posted /\ FailureKind(inp.resp) # "none"

\* C13 (as amended): TriggerPrediction answers a timeout, a connection
\* failure and an HTTP error status of the endpoint with the same status
\* code 500 and stores nothing; invoke_http_function returns "Failed ...
\* HTTP <code>" for an HTTP error status and "Exception ..." for a timeout
\* and for a connection failure alike.
C13_OneCodeForEveryFailure ==
    /\ (Predicted /\ UpstreamFailed) => (last.status = 500 /\ NothingStored)
    /\ (Invoked /\ UpstreamFailed) =>
          IF FailureKind(inp.resp) = "HTTPError"
          THEN last.body.v = "Failed" /\ last.body.detail.code = inp.resp.status
          ELSE last.body.v = "Exception"

C13_Witness ==
    /\ Predicted /\ UpstreamFailed
    /\ inp.resp = Raised("Timeout")
    /\ last.status = 500
    /\ TriggerPredictionMain(inp.env, inp.req, HttpResponse(503, PlainText("error page")),
                             inp.now, inp.dbOk, prev).out.status = 500

\* C13 (as claimed): failures of different kinds give different status
\* codes (TriggerPrediction) or status values (invoke_http_function).
C13_DistinctStatusPerKind ==
    UpstreamFailed =>
        \A r \in {x \in UpstreamResponses : FailureKind(x) \notin {"none", FailureKind(inp.resp)}} :
            /\ Predicted =>
                  TriggerPredictionMain(inp.env, inp.req, r, inp.now, inp.dbOk, prev).out.status
                      # last.status
            /\ Invoked => InvokeHttpFunction(inp.params, r) # last.body

(***************************************************************************)
(* C14: rows accumulate.                                                   *)
(***************************************************************************)
TableKeys(table) == {KeyOf(r) : r \in table}

OneRowPerKey(table) == \A r, q \in table : KeyOf(r) = KeyOf(q) => r = q

\* C14: no step of any handler removes a key from a table, and each table
\* holds at most one row per key.
C14_NeverDeleted ==
    [][/\ TableKeys(sensor_data) \subseteq TableKeys(sensor_data')
       /\ TableKeys(predictions) \subseteq TableKeys(predictions')
       /\ TableKeys(recommendations) \subseteq TableKeys(recommendations')
       /\ OneRowPerKey(sensor_data') /\ OneRowPerKey(predictions')
       /\ OneRowPerKey(recommendations')]_vars

\* A run replaced a row of an earlier run, added a row under a new key and
\* kept a row it did not write.
C14_Witness ==
    /\ last.committed
    /\ \E r \in prev.sensor_data : \E q \in sensor_data : KeyOf(r) = KeyOf(q) /\ r # q
    /\ \E q \in sensor_data : KeyOf(q) \notin TableKeys(prev.sensor_data)
    /\ \E r \in prev.sensor_data : KeyOf(r) \notin Keys(last.sensor_data_bulk)
    /\ TableKeys(prev.sensor_data) \subseteq TableKeys(sensor_data)

(***************************************************************************)
(* C15: one recommendation per fetched row.                                *)
(***************************************************************************)
\* The sensor rows the SELECT fetches.
Fetched == {s \in sensor_data : s.timestamp >= inp.now - WindowHours}

\* The prediction joined to a sensor row, nulls when there is none.
PredictionOf(s) ==
    IF \E p \in predictions : SameKey(p, s)
    THEN CHOOSE p \in predictions : SameKey(p, s)
    ELSE [predicted_energy |-> PyNone, anomaly |-> PyNone]

\* The tag of the first rule a row matches, in the order power_factor,
\* energy_spike, occupancy_mismatch, temperature_control, else "normal".
ExpectedTag(s) ==
    LET p == PredictionOf(s)
    IN  IF p.anomaly.k = "str" /\ MentionsPowerFactor(p.anomaly) THEN "power_factor"
        ELSE IF /\ p.predicted_energy.k = "num" /\ p.predicted_energy.v # 0
                /\ s.energy.k = "num"
                /\ 10 * s.energy.v > 12 * p.predicted_energy.v THEN "energy_spike"
        ELSE IF /\ s.occupancy.k = "num" /\ s.occupancy.v < 5
                /\ s.energy.k = "num" /\ s.energy.v > 30 THEN "occupancy_mismatch"
        ELSE IF s.temperature.k = "num" /\ s.temperature.v > 26 THEN "temperature_control"
        ELSE "normal"

OneRecommendationEach ==
    LET recs == last.recommendations_bulk
    IN  /\ \A s \in Fetched :
            /\ Cardinality({i \in 1..Len(recs) : SameKey(recs[i], s)}) = 1
            /\ \A i \in 1..Len(recs) :
                    SameKey(recs[i], s) => TagOf(recs[i]) = ExpectedTag(s)
        /\ Len(recs) = Cardinality(Fetched)
        /\ last.committed
        /\ last.body.count = Cardinality(Fetched)

\* A run of generate_recommendations_from_db that returns has produced one
\* record per fetched row, tagged by the first matching rule, and has
\* returned the number of fetched rows.
RecommendationsWhenReturned == Optimized => OneRecommendationEach

\* C15: generate_recommendations_from_db produces exactly one recommendation
\* record for every sensor row fetched, rows without a prediction included,
\* tagged by the first matching rule in the order power_factor,
\* energy_spike, occupancy_mismatch, temperature_control, else "normal", and
\* returns the number of fetched rows.
C15_OneRecommendationPerRow ==
    (last.handler = "OptimizeEnergy" /\ last.connected) => OneRecommendationEach

\* A returned run over several fetched rows, one of them without prediction.
C15_ReturnedRun ==
    /\ Optimized
    /\ Cardinality(Fetched) >= 2
    /\ \E s \in Fetched : ~\E p \in predictions : SameKey(p, s)
    /\ \E s \in Fetched : ExpectedTag(s) # "normal"

====
